---- MODULE Spec2Model ----
(***************************************************************************)
(* The battery-storage notebooks of nse-2022.                              *)
(*                                                                         *)
(* Arbitrage notebook (src/unnamed/part_000): a storage dict and a price   *)
(* DataFrame df are loaded, build_arbitrage_model(storage_params, profile) *)
(* builds a pyomo LP, solver.solve(model) hands it to GLPK, and the        *)
(* extraction cell reads the variable values back into df.                 *)
(*                                                                         *)
(* Numbers.  The code computes with floats; the model computes with exact  *)
(* rationals written as integers over fixed denominators:                  *)
(*   soc_init, soc_min, soc_max   in 1/SocDen          (0.5  is 5)         *)
(*   eff_ch, eff_dch              in 1/EffDen          (0.95 is 95)        *)
(*   dt                           DtNum/DtDen          (0.25 is 1/4)       *)
(*   power_ch[t], power_dch[t]    in 1/PScale(par) MW                      *)
(*   bess_energy[t]               in 1/EScale(par) MWh                     *)
(*   objective                    in 1/(PScale(par)*DtDen) currency        *)
(*   capacity, erate_ch, erate_dch, price: integers                        *)
(* The units depend on the efficiencies and are fine enough to hold every  *)
(* vertex of the LP's feasible polytope exactly (Units below).             *)
(***************************************************************************)
EXTENDS Integers, Sequences, FiniteSets, TLC

SocDen == 10
EffDen == 100
DtNum == 1
DtDen == 4

\* Longest general profile.
MaxLen == 2

VARIABLES pc, storage, df, profile, model, status, feasible,
          load_profile, electricity_cost, peak_power_cost

vars == <<pc, storage, df, profile, model, status, feasible,
          load_profile, electricity_cost, peak_power_cost>>

tariff_vars == <<load_profile, electricity_cost, peak_power_cost>>

----------------------------------------------------------------------------
(* Helpers *)

MinOf(S) == CHOOSE v \in S : \A w \in S : v <= w

MaxOf(S) == CHOOSE v \in S : \A w \in S : v >= w

RECURSIVE SumSeq(_)
SumSeq(s) == IF s = <<>> THEN 0 ELSE Head(s) + SumSeq(Tail(s))

RECURSIVE GCD(_, _)
GCD(a, b) == IF b = 0 THEN a ELSE GCD(b, a % b)

LCM(a, b) == (a \div GCD(a, b)) * b

\* Python indexes from 0, sequences from 1.
At(s, t) == s[t + 1]

\* m.time.first() and m.time.last() of a pyomo RangeSet
first(time) == MinOf(time)

last(time) == MaxOf(time)

----------------------------------------------------------------------------
(* Scaled arithmetic of the expressions in the rules.  m.scale holds the   *)
(* units of the model m: Units of its storage parameters.                  *)

\* Energy units per power unit: the least ratio for which a power unit
\* charged, or discharged, for one timestep moves a whole number of energy
\* units.
EnergyPerPower(par) ==
    LCM((EffDen * DtDen) \div GCD(EffDen * DtDen, par.eff_ch * DtNum),
        (par.eff_dch * DtDen) \div GCD(par.eff_dch * DtDen, EffDen * DtNum))

\* eff_ch * dt and (1/eff_dch) * dt, in energy units per power unit
ChargeFactor(par) == (par.eff_ch * DtNum * EnergyPerPower(par)) \div (EffDen * DtDen)

DischargeFactor(par) == (EffDen * DtNum * EnergyPerPower(par)) \div (par.eff_dch * DtDen)

\* One MW in power units: the power limits and the band's ends are whole
\* multiples of ChargeFactor*DischargeFactor, so that every power that
\* moves the energy from one of them to another is a whole number.
PScale(par) ==
    ChargeFactor(par) * DischargeFactor(par)
      * (SocDen \div GCD(SocDen, EnergyPerPower(par)))

\* One MWh in energy units.
EScale(par) == PScale(par) * EnergyPerPower(par)

Units(par) ==
    [p |-> PScale(par), e |-> EScale(par),
     ch |-> ChargeFactor(par), dch |-> DischargeFactor(par)]

\* capacity * soc, in energy units
capacity_soc(m, soc) == m.par.capacity * soc * (m.scale.e \div SocDen)

\* Mutation: the charged energy is counted twice.
charged_Twice(m, p) == 2 * p * m.scale.ch

\* power_ch[t] * eff_ch * dt, in energy units
charged(m, p) == p * m.scale.ch

\* power_dch[t] * (1/eff_dch) * dt, in energy units
discharged(m, p) == p * m.scale.dch

\* capacity * erate, in power units
capacity_erate(m, erate) == m.par.capacity * erate * m.scale.p

----------------------------------------------------------------------------
(* build_arbitrage_model: objective and constraint rules.  m is the model, *)
(* x an assignment of values to its variables: a record of the sequences   *)
(* power_ch, power_dch, bess_energy.                                       *)

\* Mutation: the variables are declared over the reals.
NonNegativeReals_Reals(v) == TRUE

\* domain=opt.NonNegativeReals
NonNegativeReals(v) == v >= 0

\* Mutation: the sign of the net power is flipped.
objective_rule_Flipped(m, x) ==
    SumSeq([i \in 1..Cardinality(m.time) |->
              (x.power_dch[i] - x.power_ch[i]) * DtNum * m.price[i]])

objective_rule(m, x) ==
    SumSeq([i \in 1..Cardinality(m.time) |->
              (x.power_ch[i] - x.power_dch[i]) * DtNum * m.price[i]])

\* Mutation: the charge limit is put on the discharge power.
power_charge_limit_rule_Dch(m, x, t) ==
    At(x.power_dch, t) <= capacity_erate(m, m.par.erate_ch)

power_charge_limit_rule(m, x, t) ==
    At(x.power_ch, t) <= capacity_erate(m, m.par.erate_ch)

power_discharge_limit_rule(m, x, t) ==
    At(x.power_dch, t) <= capacity_erate(m, m.par.erate_dch)

\* Mutation: the upper bound is the capacity, soc_max forgotten.
energy_max_rule_NoSoc(m, x, t) ==
    At(x.bess_energy, t) <= capacity_soc(m, SocDen)

energy_max_rule(m, x, t) ==
    At(x.bess_energy, t) <= capacity_soc(m, m.par.soc_max)

energy_min_rule(m, x, t) ==
    At(x.bess_energy, t) >= capacity_soc(m, m.par.soc_min)

\* Mutation: the first timestep starts from soc_min.
soc_balance_rule_FromMin(m, x, t) ==
    IF t = first(m.time)
    THEN At(x.bess_energy, t) =
            capacity_soc(m, m.par.soc_min)
            + charged(m, At(x.power_ch, t)) - discharged(m, At(x.power_dch, t))
    ELSE At(x.bess_energy, t) =
            At(x.bess_energy, t - 1)
            + charged(m, At(x.power_ch, t)) - discharged(m, At(x.power_dch, t))

\* Mutation: no case split, every timestep starts from soc_init.
soc_balance_rule_AlwaysFirst(m, x, t) ==
    At(x.bess_energy, t) =
        capacity_soc(m, m.par.soc_init)
        + charged(m, At(x.power_ch, t)) - discharged(m, At(x.power_dch, t))

soc_balance_rule(m, x, t) ==
    IF t = first(m.time)
    THEN At(x.bess_energy, t) =
           capacity_soc(m, m.par.soc_init)
           + charged(m, At(x.power_ch, t)) - discharged(m, At(x.power_dch, t))
    ELSE At(x.bess_energy, t) =
           At(x.bess_energy, t - 1)
           + charged(m, At(x.power_ch, t)) - discharged(m, At(x.power_dch, t))

\* Mutation: the terminal constraint is put on the first timestep.
soc_end_rule_First(m, x) ==
    At(x.bess_energy, first(m.time)) >= capacity_soc(m, m.par.soc_init)

\* Mutation: the horizon may end at soc_min.
soc_end_rule_ToMin(m, x) ==
    At(x.bess_energy, last(m.time)) >= capacity_soc(m, m.par.soc_min)

soc_end_rule(m, x) ==
    At(x.bess_energy, last(m.time)) >= capacity_soc(m, m.par.soc_init)

\* opt.Constraint(model.time, rule=r): one constraint per timestep;
\* opt.Constraint(rule=r): one scalar constraint (index -1 here).
IndexedConstraint(name, time) == {[name |-> name, index |-> t] : t \in time}

ScalarConstraint(name) == {[name |-> name, index |-> -1]}

Constraints(time) ==
    IndexedConstraint("constraint_power_charge_limit", time)
    \cup IndexedConstraint("constraint_power_discharge_limit", time)
    \cup IndexedConstraint("constraint_energy_max", time)
    \cup IndexedConstraint("constraint_energy_min", time)
    \cup IndexedConstraint("constraint_soc_balance", time)
    \cup ScalarConstraint("constraint_soc_end")

\* A pyomo Var without initial value: value None until a solution is loaded.
NoValue == [set |-> FALSE, val |-> 0]

Unsolved(n) ==
    [power_ch |-> [i \in 1..n |-> NoValue],
     power_dch |-> [i \in 1..n |-> NoValue],
     bess_energy |-> [i \in 1..n |-> NoValue]]

\* The set holding the model returned, empty when the call raises.
\* dfg is the global df the function reads for the number of timesteps.
build_arbitrage_model(storage_params, prof, dfg) ==
    LET n == Len(dfg.price)
        time == 0..(n - 1)
    IN  IF \E t \in time : t >= Len(prof.price)
        THEN {}
        ELSE {[time |-> time,
               par |-> storage_params,
               price |-> prof.price,
               scale |-> Units(storage_params),
               cons |-> Constraints(time),
               val |-> Unsolved(n)]}

----------------------------------------------------------------------------
(* The LP the solver sees: the points that satisfy the variables' domains  *)
(* and every constraint attached to the model.                             *)

Holds(m, c, x) ==
    CASE c.name = "constraint_power_charge_limit" -> power_charge_limit_rule(m, x, c.index)
      [] c.name = "constraint_power_discharge_limit" -> power_discharge_limit_rule(m, x, c.index)
      [] c.name = "constraint_energy_max" -> energy_max_rule(m, x, c.index)
      [] c.name = "constraint_energy_min" -> energy_min_rule(m, x, c.index)
      [] c.name = "constraint_soc_balance" -> soc_balance_rule(m, x, c.index)
      [] c.name = "constraint_soc_end" -> soc_end_rule(m, x)

InDomain(x, t) ==
    /\ NonNegativeReals(At(x.bess_energy, t))
    /\ NonNegativeReals(At(x.power_ch, t))
    /\ NonNegativeReals(At(x.power_dch, t))

\* Every domain and constraint, on a full assignment.
Satisfies(m, x) ==
    /\ \A t \in m.time : InDomain(x, t)
    /\ \A c \in m.cons : Holds(m, c, x)

\* The domains and the constraints of timestep t: they read the values at t
\* and t-1 only, so a prefix of an assignment that holds t decides them.
StepHolds(m, x, t) ==
    /\ InDomain(x, t)
    /\ \A c \in m.cons : c.index = t => Holds(m, c, x)

\* The part of StepHolds that reads the power variables only.
PowerConstraints == {"constraint_power_charge_limit", "constraint_power_discharge_limit"}

PowerStepHolds(m, x, t) ==
    /\ NonNegativeReals(At(x.power_ch, t))
    /\ NonNegativeReals(At(x.power_dch, t))
    /\ \A c \in m.cons : (c.index = t /\ c.name \in PowerConstraints) => Holds(m, c, x)

EmptyAssignment == [power_ch |-> <<>>, power_dch |-> <<>>, bess_energy |-> <<>>]

Extend(p, c, d, e) ==
    [power_ch |-> Append(p.power_ch, c),
     power_dch |-> Append(p.power_dch, d),
     bess_energy |-> Append(p.bess_energy, e)]

\* The energy before the timestep that follows the prefix p.
PrevEnergy(m, p) ==
    IF p.bess_energy = <<>>
    THEN capacity_soc(m, m.par.soc_init)
    ELSE p.bess_energy[Len(p.bess_energy)]

\* Values tried for bess_energy[t] after the prefix p with powers c, d: the
\* balance of the step, the previous energy unchanged, and the band's ends.
EnergyChoices == {"balance", "unchanged", "soc_min", "soc_max"}

EnergyCand(m, p, c, d, choice) ==
    CASE choice = "balance" -> PrevEnergy(m, p) + charged(m, c) - discharged(m, d)
      [] choice = "unchanged" -> PrevEnergy(m, p)
      [] choice = "soc_min" -> capacity_soc(m, m.par.soc_min)
      [] choice = "soc_max" -> capacity_soc(m, m.par.soc_max)

\* The LP attains its optimum at a vertex of the feasible polytope.  At a
\* vertex every power is 0 or at its limit, but for one power between two
\* timesteps whose energy is at an energy bound: it is the power that brings
\* the energy of its own or a later timestep to the bound while the powers in
\* between are 0 or at their limits.  The points tried are those of this
\* form, and one step beyond 0 and the limits.

PowerStep(m) == m.scale.ch * m.scale.dch

BoundCands(m, limit) == {0 - PowerStep(m), 0, limit, limit + PowerStep(m)}

\* The values the energy constraints and the energy's domain compare with.
Levels(m) ==
    {0, capacity_soc(m, m.par.soc_min), capacity_soc(m, m.par.soc_max),
     capacity_soc(m, m.par.soc_init)}

\* The energy r later timesteps move with their powers at 0 or at the limits.
LaterShifts(m, r) ==
    {ij[1] * charged(m, capacity_erate(m, m.par.erate_ch))
       - ij[2] * discharged(m, capacity_erate(m, m.par.erate_dch)) :
        ij \in (0..r) \X (0..r)}

\* The prefix p holds a power off 0 and its limit, and the energy has been
\* at none of the levels since.
Pending(m, p) ==
    \E i \in 1..Len(p.power_ch) :
        /\ \/ p.power_ch[i] \notin {0, capacity_erate(m, m.par.erate_ch)}
           \/ p.power_dch[i] \notin {0, capacity_erate(m, m.par.erate_dch)}
        /\ \A j \in i..Len(p.power_ch) : p.bess_energy[j] \notin Levels(m)

\* The r timesteps left can bring the energy to a level with their powers at
\* 0 or at the limits.
Reaches(m, p, r) ==
    \E s \in LaterShifts(m, r) : PrevEnergy(m, p) + s \in Levels(m)

Whole(Q, f) == {q \div f : q \in {q \in Q : q % f = 0}}

FreeCharges(m, p, r) ==
    Whole({L[1] - PrevEnergy(m, p) - L[2] + discharged(m, L[3]) :
             L \in Levels(m) \X LaterShifts(m, r) \X {0, capacity_erate(m, m.par.erate_dch)}},
          m.scale.ch)

FreeDischarges(m, p, r) ==
    Whole({PrevEnergy(m, p) + L[2] + charged(m, L[3]) - L[1] :
             L \in Levels(m) \X LaterShifts(m, r) \X {0, capacity_erate(m, m.par.erate_ch)}},
          m.scale.dch)

\* The power pairs tried at timestep t after the prefix p that pass
\* PowerStepHolds (it reads the powers at t only): StepHolds rejects the
\* others with any energy.
PowerPairs(m, p, t) ==
    LET r == Cardinality(m.time) - 1 - t
        cmax == capacity_erate(m, m.par.erate_ch)
        dmax == capacity_erate(m, m.par.erate_dch)
        free == IF Pending(m, p)
                THEN {}
                ELSE (FreeCharges(m, p, r) \X {0, dmax})
                       \cup ({0, cmax} \X FreeDischarges(m, p, r))
    IN  {cd \in (BoundCands(m, cmax) \X BoundCands(m, dmax)) \cup free :
            PowerStepHolds(m, [power_ch |-> [i \in 1..(t + 1) |-> IF i = t + 1 THEN cd[1] ELSE 0],
                               power_dch |-> [i \in 1..(t + 1) |-> IF i = t + 1 THEN cd[2] ELSE 0],
                               bess_energy |-> [i \in 1..(t + 1) |-> 0]], t)}

\* c = <<<<p, <<power_ch, power_dch>> >>, energy choice>>
StepCand(m, c) ==
    Extend(c[1][1], c[1][2][1], c[1][2][2],
           EnergyCand(m, c[1][1], c[1][2][1], c[1][2][2], c[2]))

\* The prefixes of length k tried that satisfy StepHolds at every timestep
\* below k.
RECURSIVE FeasibleUpTo(_, _)
FeasibleUpTo(m, k) ==
    IF k = 0
    THEN {EmptyAssignment}
    ELSE LET steps == UNION {{p} \X PowerPairs(m, p, k - 1) : p \in FeasibleUpTo(m, k - 1)}
             held == {StepCand(m, c) : c \in {c \in steps \X EnergyChoices :
                                                StepHolds(m, StepCand(m, c), k - 1)}}
         IN  {p \in held : Pending(m, p) => Reaches(m, p, Cardinality(m.time) - k)}

\* The points tried that satisfy the model: Satisfies, computed timestep by
\* timestep.  They include every vertex of the feasible polytope.
FeasibleSet(m) ==
    {x \in FeasibleUpTo(m, Cardinality(m.time)) :
        \A c \in m.cons : c.index = -1 => Holds(m, c, x)}

\* sense=opt.minimize
Optimal(m, F) ==
    IF F = {}
    THEN {}
    ELSE LET best == MinOf({objective_rule(m, x) : x \in F})
         IN  {x \in F : objective_rule(m, x) = best}

Loaded(x) ==
    [power_ch |-> [i \in 1..Len(x.power_ch) |-> [set |-> TRUE, val |-> x.power_ch[i]]],
     power_dch |-> [i \in 1..Len(x.power_dch) |-> [set |-> TRUE, val |-> x.power_dch[i]]],
     bess_energy |-> [i \in 1..Len(x.bess_energy) |-> [set |-> TRUE, val |-> x.bess_energy[i]]]]

\* Mutation: a variable without value reads as 0.
value_Zero(cell) == [ok |-> TRUE, val |-> cell.val]

\* opt.value(v): the value of a variable, an error when it has none.
value(cell) == IF cell.set THEN [ok |-> TRUE, val |-> cell.val] ELSE [ok |-> FALSE, val |-> 0]

----------------------------------------------------------------------------
(* Inputs *)

DataFrame(prices) == [price |-> prices, power |-> <<>>, soc |-> <<>>]

\* The storage dict of the notebook.
NotebookStorage ==
    [capacity |-> 1, soc_init |-> 5, soc_min |-> 1, soc_max |-> 9,
     erate_ch |-> 1, erate_dch |-> 1, eff_ch |-> 95, eff_dch |-> 95]

\* <<soc_init, soc_min, soc_max>>: the notebook's band, an inverted band, a
\* narrow band, the start at the lower end, below the band within reach and
\* below the band out of reach.
SocTriples == {<<5, 1, 9>>, <<5, 9, 1>>, <<5, 4, 6>>, <<1, 1, 9>>, <<0, 1, 9>>, <<0, 5, 9>>}

Efficiencies == {<<95, 95>>, <<100, 100>>}

Prices == {-10, 10, 50}

Storages ==
    {[NotebookStorage EXCEPT !.soc_init = s[1], !.soc_min = s[2], !.soc_max = s[3],
                             !.eff_ch = e[1], !.eff_dch = e[2]] :
        <<s, e>> \in SocTriples \X Efficiencies}

\* A storage that discharges at twice the rate it charges.
FastDischarge == [NotebookStorage EXCEPT !.erate_dch = 2]

Profiles == UNION {[1..n -> Prices] : n \in 1..MaxLen}

\* Constant price series, the price 0 among them.
FlatProfiles == {[i \in 1..n |-> p] : <<n, p>> \in (1..MaxLen) \X (Prices \cup {0})}

\* The price series of the spec's concrete scenario, and its mirror image.
ScenarioPrices == <<10, 50, 10, 50>>

ScenarioProfiles ==
    {ScenarioPrices, [i \in 1..Len(ScenarioPrices) |-> ScenarioPrices[Len(ScenarioPrices) + 1 - i]]}

\* The notebook's run: build_arbitrage_model(storage, df).
NotebookRuns ==
    {[storage |-> s, df |-> DataFrame(p), profile |-> DataFrame(p)] :
        <<s, p>> \in Storages \X (Profiles \cup FlatProfiles)}
    \cup {[storage |-> FastDischarge, df |-> DataFrame(p), profile |-> DataFrame(p)] :
            p \in {q \in Profiles : Len(q) = 1}}
    \cup {[storage |-> NotebookStorage, df |-> DataFrame(p), profile |-> DataFrame(p)] :
            p \in ScenarioProfiles}

\* The function called with a profile other than the global df.
OtherCalls ==
    {[storage |-> NotebookStorage, df |-> DataFrame(d), profile |-> DataFrame(p)] :
        <<d, p>> \in {<<d, p>> \in Profiles \X Profiles :
                        /\ Len(d) # Len(p)
                        /\ \A i \in 1..Len(d) : d[i] = 10
                        /\ \A i \in 1..Len(p) : p[i] \in {10, 50}}}

\* Storages of other sizes: no capacity at all (within and below the band),
\* and twice the notebook's capacity (within the band, and below it).
SizedStorages ==
    {[NotebookStorage EXCEPT !.capacity = c[1], !.soc_init = c[2]] :
        c \in {<<0, 5>>, <<0, 0>>, <<2, 5>>, <<2, 0>>}}

SizedRuns ==
    {[storage |-> s, df |-> DataFrame(p), profile |-> DataFrame(p)] :
        <<s, p>> \in SizedStorages \X {q \in Profiles : Len(q) = 1}}

Runs == NotebookRuns \cup OtherCalls \cup SizedRuns

----------------------------------------------------------------------------
(* The notebook's cells *)

TheModel == CHOOSE m \in model : TRUE

Init ==
    /\ \E r \in Runs :
        /\ storage = r.storage
        /\ df = r.df
        /\ profile = r.profile
    /\ pc = "start"
    /\ model = {}
    /\ status = "none"
    /\ feasible = {}
    /\ load_profile = <<>>
    /\ electricity_cost = 0
    /\ peak_power_cost = 0

\* model = build_arbitrage_model(storage, df)
Build ==
    /\ pc = "start"
    /\ LET r == build_arbitrage_model(storage, profile, df)
       IN  /\ model' = r
           /\ feasible' = UNION {FeasibleSet(m) : m \in r}
           /\ pc' = IF r = {} THEN "build_error" ELSE "built"
    /\ UNCHANGED <<storage, df, profile, status, tariff_vars>>

\* solver.solve(model, tee=False): GLPK loads an optimal solution into the
\* model's variables, or reports infeasibility and loads nothing.
Solve ==
    /\ pc = "built"
    /\ LET m == TheModel
           best == Optimal(m, feasible)
       IN  IF best = {}
           THEN /\ status' = "infeasible"
                /\ model' = model
           ELSE /\ status' = "optimal"
                /\ \E x \in best : model' = {[m EXCEPT !.val = Loaded(x)]}
    /\ pc' = "solved"
    /\ feasible' = {}
    /\ UNCHANGED <<storage, df, profile, tariff_vars>>

\* The extraction cell, first assignment:
\* df["power"] = [value(power_ch[t]) - value(power_dch[t]) for t in model.time]
\* A variable without value raises, and df is left as it was.
ExtractPower ==
    /\ pc \in {"built", "solved"}
    /\ LET m == TheModel
           n == Cardinality(m.time)
           ok == \A i \in 1..n :
                    /\ value(m.val.power_ch[i]).ok
                    /\ value(m.val.power_dch[i]).ok
       IN  IF ok
           THEN /\ df' = [df EXCEPT
                     !.power = [i \in 1..n |->
                         value(m.val.power_ch[i]).val - value(m.val.power_dch[i]).val]]
                /\ pc' = "power_written"
           ELSE /\ df' = df
                /\ pc' = "extract_error"
    /\ UNCHANGED <<storage, profile, model, status, feasible, tariff_vars>>

\* The extraction cell, second assignment:
\* df["soc"] = [value(bess_energy[t]) / capacity for t in model.time]
\* The division raises ZeroDivisionError when capacity is 0: df keeps the
\* power column and gets no soc column.  A soc is the pair
\* <<energy, energy units of the capacity>>.
ExtractSoc ==
    /\ pc = "power_written"
    /\ LET m == TheModel
           capacity == storage.capacity
           n == Cardinality(m.time)
           ok == /\ \A i \in 1..n : value(m.val.bess_energy[i]).ok
                 /\ capacity # 0
       IN  IF ok
           THEN /\ df' = [df EXCEPT
                     !.soc = [i \in 1..n |->
                         <<value(m.val.bess_energy[i]).val, capacity * m.scale.e>>]]
                /\ pc' = "extracted"
           ELSE /\ df' = df
                /\ pc' = "extract_error"
    /\ UNCHANGED <<storage, profile, model, status, feasible, tariff_vars>>

Next == Build \/ Solve \/ ExtractPower \/ ExtractSoc

Spec == Init /\ [][Next]_vars

----------------------------------------------------------------------------
(* The peak-shaving model.  The notebook leaves build_model as an exercise; *)
(* the model is the one the design document describes: the storage          *)
(* constraints above, a grid power per timestep, one peak power.            *)
(* Loads are in MW, grid powers and P_peak in the power units of the        *)
(* storage, the costs in cent, the objective in 1/(PScale*DtDen) cent.      *)

\* grid[t] = load[t] + power_ch[t] - power_dch[t]
grid_balance_rule(m, x, t) ==
    At(x.grid, t) = At(m.load, t) * m.scale.p + At(x.power_ch, t) - At(x.power_dch, t)

\* Mutation: the epigraph constraint points the wrong way.
peak_rule_Reversed(m, x, t) == x.P_peak <= At(x.grid, t)

\* P_peak >= grid[t]
peak_rule(m, x, t) == x.P_peak >= At(x.grid, t)

\* electricity_cost * sum_t grid[t]*dt + peak_power_cost * P_peak
peak_objective_rule(m, x) ==
    m.electricity_cost * SumSeq([i \in 1..Cardinality(m.time) |-> x.grid[i] * DtNum])
    + m.peak_power_cost * x.P_peak * DtDen

PeakConstraints(time) ==
    IndexedConstraint("constraint_grid_balance", time)
    \cup IndexedConstraint("constraint_peak", time)

build_model(storage_params, load, ec, ppc) ==
    LET n == Len(load)
        time == 0..(n - 1)
    IN  [time |-> time,
         par |-> storage_params,
         load |-> load,
         electricity_cost |-> ec,
         peak_power_cost |-> ppc,
         scale |-> Units(storage_params),
         cons |-> Constraints(time),
         peak_cons |-> PeakConstraints(time),
         val |-> [P_peak |-> NoValue, grid |-> [i \in 1..n |-> NoValue]]]

PeakHolds(m, c, x) ==
    CASE c.name = "constraint_grid_balance" -> grid_balance_rule(m, x, c.index)
      [] c.name = "constraint_peak" -> peak_rule(m, x, c.index)

\* Values tried for the grid powers: the balance, and the load alone.
GridChoices == {"balance", "load"}

GridCand(m, x, choice) ==
    [i \in 1..Len(m.load) |->
        IF choice = "balance"
        THEN m.load[i] * m.scale.p + x.power_ch[i] - x.power_dch[i]
        ELSE m.load[i] * m.scale.p]

\* Values tried for P_peak with the grid powers g: 0, each grid power, and
\* one step below and above them.
PeakCands(m, g) ==
    {0 - PowerStep(m), 0} \cup UNION {{g[i], g[i] + PowerStep(m)} : i \in 1..Len(g)}

\* c = <<storage variables, grid powers, P_peak>>
PeakCand(m, c) ==
    [power_ch |-> c[1].power_ch,
     power_dch |-> c[1].power_dch,
     bess_energy |-> c[1].bess_energy,
     grid |-> c[2],
     P_peak |-> c[3]]

\* The points tried that satisfy the storage constraints, the grid balance,
\* the epigraph constraints and P_peak's domain.
PeakFeasibleSet(m) ==
    LET withGrid == {<<xc[1], GridCand(m, xc[1], xc[2])>> : xc \in FeasibleSet(m) \X GridChoices}
        points == UNION {{PeakCand(m, <<xg[1], xg[2], p>>) : p \in PeakCands(m, xg[2])} :
                           xg \in withGrid}
    IN  {y \in points :
            /\ NonNegativeReals(y.P_peak)
            /\ \A k \in m.peak_cons : PeakHolds(m, k, y)}

PeakOptimal(m, F) ==
    IF F = {}
    THEN {}
    ELSE LET best == MinOf({peak_objective_rule(m, x) : x \in F})
         IN  {x \in F : peak_objective_rule(m, x) = best}

PeakLoaded(x) ==
    [P_peak |-> [set |-> TRUE, val |-> x.P_peak],
     grid |-> [i \in 1..Len(x.grid) |-> [set |-> TRUE, val |-> x.grid[i]]]]

\* The peak-shaving notebook's storage (start below the band, 90 %
\* efficiencies) and a lossless storage that starts within the band.
PeakStorages ==
    {[NotebookStorage EXCEPT !.soc_init = 0, !.eff_ch = 90, !.eff_dch = 90],
     [NotebookStorage EXCEPT !.eff_ch = 100, !.eff_dch = 100]}

LoadLevels == {0, 1, 3}

LoadProfiles == UNION {[1..n -> LoadLevels] : n \in 1..MaxLen}

\* <<electricity_cost, peak_power_cost>> in cent: the notebook's tariff, no
\* energy charge, no peak charge.
Tariffs == {<<12, 12000>>, <<0, 12000>>, <<12, 0>>}

PeakInit ==
    /\ storage \in PeakStorages
    /\ load_profile \in LoadProfiles
    /\ \E tf \in Tariffs :
        /\ electricity_cost = tf[1]
        /\ peak_power_cost = tf[2]
    /\ df = DataFrame(<<>>)
    /\ profile = DataFrame(<<>>)
    /\ pc = "start"
    /\ model = {}
    /\ status = "none"
    /\ feasible = {}

\* model = build_model(storage_params, load_profile, electricity_cost, peak_power_cost)
BuildPeak ==
    /\ pc = "start"
    /\ LET m == build_model(storage, load_profile, electricity_cost, peak_power_cost)
       IN  /\ model' = {m}
           /\ feasible' = PeakFeasibleSet(m)
    /\ pc' = "built"
    /\ UNCHANGED <<storage, df, profile, status, tariff_vars>>

SolvePeak ==
    /\ pc = "built"
    /\ LET m == TheModel
           best == PeakOptimal(m, feasible)
       IN  IF best = {}
           THEN /\ status' = "infeasible"
                /\ model' = model
           ELSE /\ status' = "optimal"
                /\ \E x \in best : model' = {[m EXCEPT !.val = PeakLoaded(x)]}
    /\ pc' = "solved"
    /\ feasible' = {}
    /\ UNCHANGED <<storage, df, profile, tariff_vars>>

PeakNext == BuildPeak \/ SolvePeak

PeakSpec == PeakInit /\ [][PeakNext]_vars

----------------------------------------------------------------------------
(* Properties of the arbitrage model *)

Built == pc = "built"

SolvedOptimal == pc = "solved" /\ status = "optimal"

ValidBand(par) == 0 <= par.soc_min /\ par.soc_min <= par.soc_max /\ par.soc_max <= SocDen

InBand(par) == par.soc_min <= par.soc_init /\ par.soc_init <= par.soc_max

\* The prices of the model's timesteps are one constant.
FlatPrice(m, p) == \A t \in m.time : At(m.price, t) = p

AllZero(x) ==
    \A i \in 1..Len(x.power_ch) : x.power_ch[i] = 0 /\ x.power_dch[i] = 0

\* One MW and one MWh in the units of the built model, and a tenth of the
\* capacity in energy units.
MW == TheModel.scale.p

MWh == TheModel.scale.e

SocStep == storage.capacity * (MWh \div SocDen)

\* The units are exact: a MWh is a whole number of tenths, and a power unit
\* charged or discharged for a timestep is the whole number of energy units
\* that eff_ch*dt and (1/eff_dch)*dt give.
UnitsExact ==
    LET r == MWh \div MW
    IN  /\ MWh = r * MW
        /\ MWh = SocDen * (MWh \div SocDen)
        /\ TheModel.scale.ch * EffDen * DtDen = storage.eff_ch * DtNum * r
        /\ TheModel.scale.dch * storage.eff_dch * DtDen = EffDen * DtNum * r

\* C1: every assignment that satisfies the built model keeps bess_energy[t]
\* within [capacity*soc_min, capacity*soc_max] at every timestep of the model.
C1_EnergyWithinBand ==
    Built =>
        \A x \in feasible : \A t \in TheModel.time :
            /\ At(x.bess_energy, t) >= storage.soc_min * SocStep
            /\ At(x.bess_energy, t) <= storage.soc_max * SocStep

\* A valid band that full-power charging from soc_init would leave, and a
\* feasible schedule that charges in the first timestep.
C1_Witness ==
    /\ Built
    /\ ValidBand(storage)
    /\ (storage.soc_init * SocStep
          + storage.capacity * storage.erate_ch * MW * TheModel.scale.ch
        > storage.soc_max * SocStep)
    /\ \E x \in feasible : x.power_ch[1] > 0

\* C2: every assignment that satisfies the built model follows the energy
\* balance: from capacity*soc_init at timestep 0, from bess_energy[t-1] at
\* every later timestep.
C2_EnergyBalance ==
    Built =>
        /\ UnitsExact
        /\ \A x \in feasible : \A t \in TheModel.time :
            LET step == At(x.power_ch, t) * TheModel.scale.ch
                          - At(x.power_dch, t) * TheModel.scale.dch
            IN  IF t = 0
                THEN At(x.bess_energy, t) = storage.soc_init * SocStep + step
                ELSE At(x.bess_energy, t) = At(x.bess_energy, t - 1) + step

\* A feasible schedule that charges at timestep 0 and discharges at timestep 1.
C2_Witness ==
    /\ Built
    /\ \E x \in feasible :
        /\ Len(x.power_ch) >= 2
        /\ x.power_ch[1] > 0
        /\ x.power_dch[2] > 0

\* C3: in every assignment that satisfies the built model the energy of the
\* last timestep is at least capacity*soc_init.
C3_TerminalEnergy ==
    Built =>
        \A x \in feasible :
            At(x.bess_energy, Cardinality(TheModel.time) - 1)
              >= storage.soc_init * SocStep

\* A feasible schedule that discharges, and a schedule that satisfies every
\* timestep's constraints but ends below capacity*soc_init.
C3_Witness ==
    /\ Built
    /\ \E x \in feasible : \E i \in 1..Len(x.power_dch) : x.power_dch[i] > 0
    /\ \E x \in FeasibleUpTo(TheModel, Cardinality(TheModel.time)) : x \notin feasible

\* The scenario of the spec: the notebook's storage, four timesteps of 0.25 h,
\* prices 10, 50, 10, 50.
Scenario ==
    /\ storage = NotebookStorage
    /\ profile.price = ScenarioPrices
    /\ TheModel.time = 0..3

\* C4: in the scenario every optimal solution charges on balance at t = 0 and
\* t = 2, discharges on balance at t = 1 and t = 3, and has a negative
\* objective value.
C4_ScenarioSchedule ==
    (SolvedOptimal /\ Scenario) =>
        LET v == TheModel.val
            net == [i \in 1..4 |-> v.power_ch[i].val - v.power_dch[i].val]
        IN  /\ net[1] > 0 /\ net[3] > 0
            /\ net[2] < 0 /\ net[4] < 0
            /\ SumSeq([i \in 1..4 |-> net[i] * DtNum * ScenarioPrices[i]]) < 0

\* The scenario solved: full charge at t = 0, a discharge of 161/200 MW at
\* t = 3, an objective value of -281/16.
C4_Witness ==
    /\ SolvedOptimal /\ Scenario
    /\ LET v == TheModel.val
           net == [i \in 1..4 |-> v.power_ch[i].val - v.power_dch[i].val]
       IN  /\ v.power_ch[1].val = MW
           /\ v.power_dch[4].val * 200 = 161 * MW
           /\ SumSeq([i \in 1..4 |-> net[i] * DtNum * ScenarioPrices[i]]) * 16
                = 0 - 281 * MW * DtDen

\* C5 as stated: with a constant price of any sign and soc_init within the
\* band, the idle schedule is optimal and no optimal schedule moves energy.
C5_FlatPriceIdle_AnySign ==
    (Built /\ InBand(storage) /\ \E p \in Prices \cup {0} : FlatPrice(TheModel, p)) =>
        LET O == Optimal(TheModel, feasible)
        IN  /\ \E x \in O : AllZero(x)
            /\ \A x \in O : AllZero(x)

\* C5 amended: with a constant price >= 0 and soc_init within a valid band
\* the idle schedule is optimal; with a constant price > 0 and
\* eff_ch*eff_dch < 1 it is the only optimal schedule.
C5_FlatPriceIdle ==
    \A p \in Prices \cup {0} :
        (Built /\ ValidBand(storage) /\ InBand(storage) /\ FlatPrice(TheModel, p) /\ p >= 0) =>
            LET O == Optimal(TheModel, feasible)
            IN  /\ \E x \in O : AllZero(x)
                /\ (p > 0 /\ storage.eff_ch * storage.eff_dch < EffDen * EffDen)
                     => \A x \in O : AllZero(x)

\* A constant positive price over two timesteps, a lossy storage within its
\* band, and feasible schedules other than the idle one.
C5_Witness ==
    /\ Built /\ ValidBand(storage) /\ InBand(storage)
    /\ \E p \in Prices : p > 0 /\ FlatPrice(TheModel, p)
    /\ Cardinality(TheModel.time) >= 2
    /\ storage.eff_ch * storage.eff_dch < EffDen * EffDen
    /\ \E x \in feasible : ~AllZero(x)

\* C6: a storage with soc_min > soc_max never gets a model from
\* build_arbitrage_model.
C6_InvertedBandRejected == storage.soc_min > storage.soc_max => model = {}

\* C8: the model returned depends on the two arguments only: its timesteps are
\* 0..len(profile)-1 and it is the same whatever the global df holds.
C8_PureInArguments ==
    Built =>
        /\ TheModel.time = 0..(Len(profile.price) - 1)
        /\ \A d \in Profiles :
             build_arbitrage_model(storage, profile, DataFrame(d))
               = build_arbitrage_model(storage, profile, df)

\* C9: the extraction fails unless the solve ended with an optimal solution:
\* its first assignment raises, and the power and soc columns exist only
\* after an optimal solve.
C9_ExtractionNeedsOptimal ==
    /\ status # "optimal" =>
         /\ pc \notin {"power_written", "extracted"}
         /\ df.power = <<>> /\ df.soc = <<>>
    /\ pc \in {"power_written", "extracted"} =>
         /\ status = "optimal"
         /\ Len(df.power) = Cardinality(TheModel.time)
    /\ pc = "extracted" => Len(df.soc) = Cardinality(TheModel.time)
    /\ df.soc # <<>> => pc = "extracted"

\* The extraction has failed on a model the solver found infeasible.
C9_Witness == pc = "extract_error" /\ status = "infeasible"

\* C10: every assignment that satisfies the built model lies in the box
\* 0 <= power_ch <= capacity*erate_ch, 0 <= power_dch <= capacity*erate_dch,
\* 0 <= bess_energy <= capacity*soc_max, so its objective value is at least
\* the finite bound the box gives, negative prices included.
C10_ObjectiveBounded ==
    Built =>
        LET m == TheModel
            n == Cardinality(m.time)
            cmax == storage.capacity * storage.erate_ch * MW
            dmax == storage.capacity * storage.erate_dch * MW
            bound == SumSeq([i \in 1..n |->
                        IF m.price[i] >= 0
                        THEN 0 - dmax * DtNum * m.price[i]
                        ELSE cmax * DtNum * m.price[i]])
        IN  \A x \in feasible :
                /\ \A i \in 1..n :
                    /\ 0 <= x.power_ch[i] /\ x.power_ch[i] <= cmax
                    /\ 0 <= x.power_dch[i] /\ x.power_dch[i] <= dmax
                    /\ 0 <= x.bess_energy[i]
                    /\ x.bess_energy[i] <= storage.soc_max * SocStep
                /\ objective_rule(m, x) >= bound

\* A profile with a negative price and a feasible schedule that charges at
\* the power limit while the price is negative.
C10_Witness ==
    /\ Built
    /\ \E x \in feasible : \E i \in 1..Len(x.power_ch) :
        /\ TheModel.price[i] < 0
        /\ x.power_ch[i] = storage.capacity * storage.erate_ch * MW

\* C7: in the peak-shaving model with peak_power_cost > 0 every optimal
\* solution has P_peak equal to the largest grid power: a feasible point with
\* P_peak above its largest grid power stays feasible and gets cheaper with
\* P_peak lowered to it.
C7_PeakIsMaxGrid ==
    /\ (SolvedOptimal /\ peak_power_cost > 0) =>
          LET v == TheModel.val
          IN  /\ \A i \in 1..Len(v.grid) : v.P_peak.val >= v.grid[i].val
              /\ \E i \in 1..Len(v.grid) : v.P_peak.val = v.grid[i].val
    /\ (Built /\ peak_power_cost > 0) =>
          \A y \in feasible :
              LET top == MaxOf({y.grid[i] : i \in 1..Len(y.grid)})
                  lowered == [y EXCEPT !.P_peak = top]
              IN  /\ y.P_peak >= top
                  /\ y.P_peak > top =>
                       /\ NonNegativeReals(lowered.P_peak)
                       /\ \A k \in TheModel.peak_cons : PeakHolds(TheModel, k, lowered)
                       /\ lowered \in feasible
                       /\ peak_objective_rule(TheModel, lowered)
                            < peak_objective_rule(TheModel, y)

\* An optimal solution under a peak charge whose grid powers differ from the
\* loads and from each other: the storage acts and one timestep sets the peak.
C7_Witness ==
    /\ SolvedOptimal /\ peak_power_cost > 0
    /\ LET v == TheModel.val
       IN  /\ Len(v.grid) >= 2
           /\ \E i \in 1..Len(v.grid) : v.grid[i].val # load_profile[i] * MW
           /\ \E i, j \in 1..Len(v.grid) : v.grid[i].val < v.grid[j].val

\* C11: every assignment that satisfies the built model has, at every
\* timestep, 0 <= power_ch[t] <= capacity*erate_ch,
\* 0 <= power_dch[t] <= capacity*erate_dch and bess_energy[t] >= 0.
C11_PowerBox ==
    Built =>
        \A x \in feasible : \A t \in TheModel.time :
            /\ At(x.power_ch, t) >= 0
            /\ At(x.power_ch, t) <= storage.capacity * storage.erate_ch * MW
            /\ At(x.power_dch, t) >= 0
            /\ At(x.power_dch, t) <= storage.capacity * storage.erate_dch * MW
            /\ At(x.bess_energy, t) >= 0

\* A feasible schedule that charges at its limit in one timestep and
\* discharges at its limit in another.
C11_Witness ==
    /\ Built
    /\ storage.capacity > 0
    /\ \E x \in feasible : \E i, j \in 1..Len(x.power_ch) :
        /\ x.power_ch[i] = storage.capacity * storage.erate_ch * MW
        /\ x.power_dch[j] = storage.capacity * storage.erate_dch * MW

\* The idle schedule: no power at any timestep, the energy at its start
\* value throughout.
IdleSchedule(m) ==
    [power_ch |-> [i \in 1..Cardinality(m.time) |-> 0],
     power_dch |-> [i \in 1..Cardinality(m.time) |-> 0],
     bess_energy |-> [i \in 1..Cardinality(m.time) |-> storage.soc_init * SocStep]]

\* power_ch[0] >= (soc_min - soc_init)*capacity / (eff_ch*dt)
ChargesIntoBand(x) ==
    x.power_ch[1] * storage.eff_ch * DtNum * SocDen
      >= (storage.soc_min - storage.soc_init) * storage.capacity * MW * EffDen * DtDen

\* (soc_min - soc_init)*capacity / (eff_ch*dt) <= capacity*erate_ch
BandWithinReach ==
    (storage.soc_min - storage.soc_init) * storage.capacity * EffDen * DtDen
      <= storage.capacity * storage.erate_ch * storage.eff_ch * DtNum * SocDen

IdleWhenInBand ==
    (Built /\ InBand(storage) /\ storage.capacity >= 0) =>
        LET m == TheModel
            O == Optimal(m, feasible)
        IN  /\ Satisfies(m, IdleSchedule(m))
            /\ IdleSchedule(m) \in feasible
            /\ O # {}
            /\ \A x \in O : objective_rule(m, x) <= 0

MustChargeBelowBand ==
    /\ ~Satisfies(TheModel, IdleSchedule(TheModel))
    /\ \A x \in feasible : ChargesIntoBand(x)
    /\ feasible # {} => BandWithinReach

\* C12 as stated: with soc_init within the band and capacity >= 0 the idle
\* schedule satisfies the model and the optimum is <= 0; with soc_init below
\* soc_min the idle schedule does not satisfy it, every feasible schedule
\* charges at least (soc_min - soc_init)*capacity/(eff_ch*dt) in the first
\* timestep, and that amount is within capacity*erate_ch.
C12_IdleFeasibility_AnyCapacity ==
    /\ IdleWhenInBand
    /\ (Built /\ storage.soc_init < storage.soc_min) => MustChargeBelowBand

\* C12 amended: the same, the part on soc_init below soc_min for
\* capacity > 0 only.
C12_IdleFeasibility ==
    /\ IdleWhenInBand
    /\ (Built /\ storage.soc_init < storage.soc_min /\ storage.capacity > 0)
         => MustChargeBelowBand

\* A storage that starts below its band and has feasible schedules, one of
\* them charging exactly the amount required.
C12_Witness ==
    /\ Built
    /\ storage.soc_init < storage.soc_min /\ storage.capacity > 0
    /\ \E x \in feasible :
        x.power_ch[1] * storage.eff_ch * DtNum * SocDen
          = (storage.soc_min - storage.soc_init) * storage.capacity * MW * EffDen * DtDen

Lossy == storage.eff_ch * storage.eff_dch < EffDen * EffDen

Simultaneous(x, t) == At(x.power_ch, t) > 0 /\ At(x.power_dch, t) > 0

\* A narrow band around soc_init, a lossy storage, one timestep at a negative
\* price.
NarrowBandPaidToCharge ==
    /\ storage = [NotebookStorage EXCEPT !.soc_min = 4, !.soc_max = 6]
    /\ profile.price = <<-10>>

\* C13: with eff_ch*eff_dch < 1 and every price positive no optimal solution
\* charges and discharges in the same timestep; at a negative price an
\* optimal solution may: with the band 0.4..0.6 around soc_init and one
\* timestep at price -10 every optimal solution charges 1 MW and discharges
\* 209/400 MW at once.
C13_NoSimultaneousAtPositivePrices ==
    LET O == Optimal(TheModel, feasible)
    IN  /\ (Built /\ Lossy /\ \A u \in TheModel.time : At(TheModel.price, u) > 0) =>
              \A x \in O : \A t \in TheModel.time : ~Simultaneous(x, t)
        /\ (Built /\ NarrowBandPaidToCharge) =>
              /\ O # {}
              /\ \A x \in O :
                   /\ Simultaneous(x, 0)
                   /\ x.power_ch[1] = MW
                   /\ x.power_dch[1] * 400 = 209 * MW

\* Positive prices, a lossy storage, and a feasible schedule that charges and
\* discharges in the same timestep: no constraint forbids it.
C13_Witness ==
    /\ Built /\ Lossy
    /\ \A u \in TheModel.time : At(TheModel.price, u) > 0
    /\ Cardinality(TheModel.time) >= 2
    /\ Optimal(TheModel, feasible) # {}
    /\ \E x \in feasible : \E t \in TheModel.time : Simultaneous(x, t)

====
